---- MODULE Spec2Model ----
(***************************************************************************)
(* Model of the sushiscan-dl download pipeline (index.ts): the cookie      *)
(* bootstrap (preloadCookies), the page 'response' handler (manifest       *)
(* observer and asset discoverer), the retrying downloader                 *)
(* (downloadWithRetry), the cli-progress bar and the run controller        *)
(* (downloadingSushiscanPageImages).                                       *)
(*                                                                         *)
(* Node runs all of this on one thread: every action below is the code     *)
(* between two suspension points (await), and the browser, the network,    *)
(* the timers and the remote site are the environment, whose outcomes are  *)
(* chosen nondeterministically.                                            *)
(***************************************************************************)
EXTENDS Integers, Sequences, FiniteSets, TLC

(* ------------------------------ bounds -------------------------------- *)
\* Handler invocations suspended in `await response.text()` at one time.
MaxPending == 1
\* Failed attempts of one download task that the model follows.
MaxFails == 1
\* <img> elements found in #readerarea by the scroll loop.
MaxImages == 1
\* Failed attempts of one download task followed in the retry-log run.
MaxDeepFails == 5

(* ------------------------- program constants -------------------------- *)
\* while (... && attempts < 5)
MaxChallengeAttempts == 5
\* const maxLoggedAttempts = 3
maxLoggedAttempts == 3

(* ------------------------------- URLs --------------------------------- *)
(* A URL is a sequence of characters.  The alphabet is reduced to the      *)
(* classes the two regular expressions of the handler tell apart:          *)
(*   "U"        the literal text  wp-content/upload  (one token)           *)
(*   "/" "-" "." the separators                                            *)
(*   "a" "b"    letters (\w, not \d),   "1" "2"  digits (\d, also \w)      *)
Digits == {"1", "2"}
WordChars == {"a", "b", "1", "2"}

\* The page given on the command line, without and with a trailing slash.
PageUrl == <<"/", "a">>
PageUrlSlash == <<"/", "a", "/">>
\* .../wp-content/uploads/a-1.a     folder a, name 1
Asset1 == <<"/", "U", "/", "a", "-", "1", ".", "a">>
\* .../wp-content/uploads/b/a-1.a   another URL with folder a, name 1
Asset1b == <<"/", "U", "/", "b", "/", "a", "-", "1", ".", "a">>
\* .../wp-content/uploads/a-b-1.a   passes the filter, no (folder, name)
AssetBad == <<"/", "U", "/", "a", "-", "b", "-", "1", ".", "a">>
\* .../b.a                          some other resource of the page
OtherUrl == <<"/", "b", ".", "a">>

\* The URL argument of the modelled runs.
TargetUrls == {PageUrl}
ResponseUrls == {PageUrl, PageUrlSlash, Asset1, Asset1b, AssetBad, OtherUrl}

\* s[i..j] consists only of characters of set C, and is not empty.
AllIn(s, i, j, C) == i <= j /\ \A k \in i..j : s[k] \in C

\* u.match(/wp-content\/upload.+-\d+\.\w+$/) is not null
MatchesUploadFilter(u) ==
  \E p \in 1..Len(u), q \in 1..Len(u), r \in 1..Len(u) :
    /\ u[p] = "U"
    /\ q > p + 1
    /\ u[q] = "-"
    /\ u[r] = "."
    /\ AllIn(u, q + 1, r - 1, Digits)
    /\ AllIn(u, r + 1, Len(u), WordChars)

\* The filter on the URLs of the model, evaluated once.
UploadFilter == [u \in ResponseUrls |-> MatchesUploadFilter(u)]

\* The positions <<s, q, r>> of "/", "-" and "." in a match of
\* /\/([^/-]+)-(\d+)\.\w+$/
NamePositions(u) ==
  {t \in (1..Len(u)) \X (1..Len(u)) \X (1..Len(u)) :
     /\ u[t[1]] = "/"
     /\ u[t[2]] = "-"
     /\ u[t[3]] = "."
     /\ t[1] + 1 <= t[2] - 1
     /\ \A k \in (t[1] + 1)..(t[2] - 1) : u[k] \notin {"/", "-"}
     /\ AllIn(u, t[2] + 1, t[3] - 1, Digits)
     /\ AllIn(u, t[3] + 1, Len(u), WordChars)}

\* u.match(/\/([^/-]+)-(\d+)\.\w+$/): null, or the captures [folder, name]
NoMatch == <<>>

\* A pattern whose folder capture keeps the directories of the URL, as
\* /\/([^-]+)-(\d+)\.\w+$/ would.
MatchFolderNameWithDirectories(u) ==
  IF NamePositions(u) = {} THEN NoMatch
  ELSE LET t == CHOOSE x \in NamePositions(u) :
                  \A y \in NamePositions(u) : x[1] <= y[1]
       IN <<SubSeq(u, 2, t[2] - 1), SubSeq(u, t[2] + 1, t[3] - 1)>>

MatchFolderName(u) ==
  IF NamePositions(u) = {} THEN NoMatch
  ELSE LET t == CHOOSE x \in NamePositions(u) :
                  \A y \in NamePositions(u) : x[1] <= y[1]
       IN <<SubSeq(u, t[1] + 1, t[2] - 1), SubSeq(u, t[2] + 1, t[3] - 1)>>

\* The captures for the URLs of the model, evaluated once.
FolderName == [u \in ResponseUrls |-> MatchFolderName(u)]

(* --------------------------- manifest body ---------------------------- *)
\* The body of the primary response, reduced to what
\*   body.match(/"images":\s?\[([^\]]*)\]/)
\* yields: null, or the text captured between the brackets, a sequence
\* over "1" and ",".
NoImagesKey == <<"null">>
Bodies == {NoImagesKey, <<>>, <<"1">>, <<"1", ",", "1">>}

\* match[1].split(',').length : one more than the number of commas
RECURSIVE CountCommas(_)
CountCommas(s) ==
  IF s = <<>> THEN 0
  ELSE (IF Head(s) = "," THEN 1 ELSE 0) + CountCommas(Tail(s))
SplitLength(s) == CountCommas(s) + 1

(* ------------------------------ cookies ------------------------------- *)
\* The possible contents of ./cookies.json before the run.
CookieSets == {{}, {"cf_clearance"}}
\* What context.cookies() yields once the site has been visited with the
\* cookies `existing` injected: those, and the clearance cookie of the site.
Harvest(existing) == existing \cup {"cf_clearance"}
\* validCookies before preloadCookies has returned anything.
NoCookies == {"<none>"}

(* ------------------------------- state -------------------------------- *)
VARIABLES
  pc,             \* where downloadingSushiscanPageImages (and preloadCookies) stands
  url,            \* targetUrl, the command-line argument
  cookieFile,     \* content of ./cookies.json
  attempts,       \* preloadCookies: let attempts (0 again once it returned)
  title,          \* preloadCookies: the last title read by the loop condition
                  \* ("unread" before the first read and once it returned)
  preloadBrowser, \* preloadCookies: "none", "open" or "closed"
  validCookies,   \* what preloadCookies returned to its caller, or NoCookies
  exitCode,       \* 0 while the process runs, 1 after process.exit(1)
  browserOpen,    \* the headless browser (and its context and page) is open
  bar,            \* progressBar: [value, total, started, stopped]
  totalImages,    \* let totalImages
  processedUrls,  \* const processedUrls = new Set<string>()
  tasks,          \* downloadQueue: one entry per promise pushed, with the state
                  \* of the downloadWithRetry call behind it
  awaited,        \* number of promises Promise.all(downloadQueue) was given
  pendingText,    \* handler invocations suspended in `await response.text()`
  toScroll,       \* images the scroll loop has not reached yet
  files,          \* <<folder, name>> of every file under destinationFolder
  lastError,      \* the last 'Erreur de traitement' printed by the handler
  skipped,        \* a response that passed the upload filter was ignored
                  \* because processedUrls already held its URL
  observed        \* the input last given to the handler: the response
                  \* event or the body text (recorded by SpecHandler only)

vars == <<pc, url, cookieFile, attempts, title, preloadBrowser, validCookies,
          exitCode, browserOpen, bar, totalImages, processedUrls, tasks,
          awaited, pendingText, toScroll, files, lastError, skipped,
          observed>>

bootVars == <<attempts, title, preloadBrowser, validCookies, cookieFile>>
pageVars == <<bar, totalImages, processedUrls, tasks, pendingText, files,
              lastError, skipped, observed>>

NotAwaited == -1
NothingObserved == [kind |-> "none", tick |-> FALSE]

Init ==
  /\ pc = "preload_launch"
  /\ url \in TargetUrls
  /\ cookieFile \in CookieSets
  /\ attempts = 0
  /\ title = "unread"
  /\ preloadBrowser = "none"
  /\ validCookies = NoCookies
  /\ exitCode = 0
  /\ browserOpen = FALSE
  /\ bar = [value |-> 0, total |-> 100, started |-> FALSE, stopped |-> FALSE]
  /\ totalImages = 0
  /\ processedUrls = {}
  /\ tasks = <<>>
  /\ awaited = NotAwaited
  /\ pendingText = 0
  /\ toScroll = 0
  /\ files = {}
  /\ lastError = "none"
  /\ skipped = FALSE
  /\ observed = NothingObserved

(* --------------------------- preloadCookies --------------------------- *)
\* process.exit(1): the process ends here; no finally block, callback or
\* timer of the program runs afterwards.
ProcessExit ==
  /\ pc' = "failed"
  /\ exitCode' = 1

\* loadSavedCookies(); firefox.launch({headless: false}); newContext();
\* addCookies(existingCookies); newPage(); then page.goto is issued.
PreloadLaunch ==
  /\ pc = "preload_launch"
  /\ preloadBrowser' = "open"
  /\ pc' = "preload_goto"
  /\ UNCHANGED <<url, cookieFile, attempts, title, validCookies, exitCode,
                 browserOpen, toScroll, awaited>>
  /\ UNCHANGED pageVars

\* await page.goto(url, ...) resolves: the loop condition reads the title.
PreloadGotoOk ==
  /\ pc = "preload_goto"
  /\ pc' = "preload_title"
  /\ UNCHANGED <<url, exitCode, browserOpen, toScroll, awaited>>
  /\ UNCHANGED bootVars
  /\ UNCHANGED pageVars

\* The catch block: page.goto, the title read or page.waitForURL threw
\* (navigation failure or timeout); the error is printed and the process
\* exits with status 1.
PreloadCatch ==
  /\ pc \in {"preload_goto", "preload_title", "preload_wait"}
  /\ ProcessExit
  /\ UNCHANGED <<url, browserOpen, toScroll, awaited>>
  /\ UNCHANGED bootVars
  /\ UNCHANGED pageVars

\* The loop condition:
\*   (await page.locator('title').innerText()) === 'Just a moment...'
\*      && attempts < 5
\* and, when it holds, the body up to `await page.waitForURL(...)`.
PreloadTitle(t) ==
  /\ pc = "preload_title"
  /\ title' = t
  /\ IF t = "challenge" /\ attempts < MaxChallengeAttempts
       THEN /\ attempts' = attempts + 1
            /\ pc' = "preload_wait"
       ELSE /\ attempts' = attempts
            /\ pc' = "preload_finally"
  /\ UNCHANGED <<url, cookieFile, preloadBrowser, validCookies, exitCode,
                 browserOpen, toScroll, awaited>>
  /\ UNCHANGED pageVars

\* await page.waitForURL('https://sushiscan.net/**', ...) resolves.
PreloadWaitOk ==
  /\ pc = "preload_wait"
  /\ pc' = "preload_title"
  /\ UNCHANGED <<url, exitCode, browserOpen, toScroll, awaited>>
  /\ UNCHANGED bootVars
  /\ UNCHANGED pageVars

\* The finally block, entered when the loop ends:
\*   const cookies = await context.cookies(); await browser.close();
\*   return cookies;
PreloadFinally ==
  /\ pc = "preload_finally"
  /\ preloadBrowser' = "closed"
  /\ validCookies' = Harvest(cookieFile)
  /\ attempts' = 0
  /\ title' = "unread"
  /\ pc' = "save"
  /\ UNCHANGED <<url, cookieFile, exitCode, browserOpen, toScroll, awaited>>
  /\ UNCHANGED pageVars

\* saveCookies(validCookies):
\*   fs.writeFileSync(COOKIES_FILE_PATH, JSON.stringify(cookies, null, 2))
SaveCookies ==
  /\ pc = "save"
  /\ cookieFile' = validCookies
  /\ pc' = "launch"
  /\ UNCHANGED <<url, attempts, title, preloadBrowser, validCookies, exitCode,
                 browserOpen, toScroll, awaited>>
  /\ UNCHANGED pageVars

(* ---------------------------- progress bar ---------------------------- *)
\* progressBar.start(total, 0, ...): sets the total and sets the value to
\* the start value 0.
BarStart(b, total) ==
  [b EXCEPT !.value = 0, !.total = total, !.started = TRUE, !.stopped = FALSE]

\* bar.update(1, {suffix}): a numeric first argument is the new value.
BarUpdateValue(b, v) == [b EXCEPT !.value = v]

\* progressBar.increment(): value + 1.
BarIncrement(b) == [b EXCEPT !.value = @ + 1]

\* progressBar.stop()
BarStop(b) == [b EXCEPT !.stopped = TRUE]

(* -------------------------- response handler -------------------------- *)
\* The process runs and the page that emits 'response' events is open:
\* from page.goto(url) until browser.close() has completed.
PageOpen ==
  /\ exitCode = 0
  /\ browserOpen
  /\ pc \in {"goto", "scroll", "drain", "closing"}

\* !processedUrls.has(response.url())
NotProcessed(set, u) == u \notin set

\* A handler that forgets to record the URL it queued.
AddProcessedForgets(set, u) == set

\* processedUrls.add(response.url())
AddProcessed(set, u) == set \cup {u}

\* downloadWithRetry(...) runs up to its first await, context.request.get.
NewTask(u, m) ==
  [url |-> u, folder |-> m[1], name |-> m[2], attempts |-> 0, st |-> "get",
   verbose |-> 0, silent |-> 0]

\* An asset section that destructures `match || []`: nothing is thrown and
\* a task with undefined folder and name is queued.
AssetSectionUnchecked(u) ==
  IF UploadFilter[u] /\ NotProcessed(processedUrls, u)
    THEN /\ processedUrls' = AddProcessed(processedUrls, u)
         /\ skipped' = skipped
         /\ lastError' = lastError
         /\ tasks' = Append(tasks,
                NewTask(u, IF FolderName[u] = NoMatch
                             THEN <<"undefined", "undefined">>
                             ELSE FolderName[u]))
    ELSE /\ skipped' = (skipped \/ UploadFilter[u])
         /\ UNCHANGED <<processedUrls, tasks, lastError>>

\* The second `if` of the handler and its body; a null match of the
\* (folder, name) pattern makes the destructuring throw, which the catch
\* block of the handler prints.
AssetSection(u) ==
  IF UploadFilter[u] /\ NotProcessed(processedUrls, u)
    THEN /\ processedUrls' = AddProcessed(processedUrls, u)
         /\ skipped' = skipped
         /\ IF FolderName[u] = NoMatch
              THEN /\ lastError' = "destructure"
                   /\ tasks' = tasks
              ELSE /\ lastError' = lastError
                   /\ tasks' = Append(tasks, NewTask(u, FolderName[u]))
    ELSE /\ skipped' = (skipped \/ UploadFilter[u])
         /\ UNCHANGED <<processedUrls, tasks, lastError>>

\* A 'response' event: the handler runs to its first await.  For the
\* primary URL with an ok status that is `await response.text()`;
\* otherwise the handler runs to its end.
Respond(u, ok) ==
  /\ PageOpen
  /\ IF u = url /\ ok
       THEN /\ pendingText < MaxPending
            /\ pendingText' = pendingText + 1
            /\ UNCHANGED <<processedUrls, tasks, lastError, skipped>>
       ELSE /\ pendingText' = pendingText
            /\ AssetSection(u)
  /\ UNCHANGED <<pc, url, exitCode, browserOpen, bar, totalImages, awaited,
                 toScroll, files>>
  /\ UNCHANGED bootVars

\* A handler without its try/catch: the missing "images" list is an
\* unhandled rejection, which ends the process.
TextResolvedUnhandled(body) ==
  /\ exitCode = 0
  /\ browserOpen
  /\ pendingText > 0
  /\ pendingText' = pendingText - 1
  /\ IF body = NoImagesKey
       THEN /\ lastError' = "format"
            /\ ProcessExit
            /\ UNCHANGED <<totalImages, bar, processedUrls, tasks, skipped>>
       ELSE /\ totalImages' = SplitLength(body)
            /\ bar' = BarStart(bar, SplitLength(body))
            /\ AssetSection(url)
            /\ UNCHANGED <<pc, exitCode>>
  /\ UNCHANGED <<url, browserOpen, awaited, toScroll, files>>
  /\ UNCHANGED bootVars

\* `await response.text()` resolves with the body: the manifest is parsed,
\* the bar is started, and the handler goes on to its second `if`.
TextResolved(body) ==
  /\ exitCode = 0
  /\ browserOpen
  /\ pendingText > 0
  /\ pendingText' = pendingText - 1
  /\ IF body = NoImagesKey
       THEN /\ lastError' = "format"
            /\ UNCHANGED <<totalImages, bar, processedUrls, tasks, skipped>>
       ELSE /\ totalImages' = SplitLength(body)
            /\ bar' = BarStart(bar, SplitLength(body))
            /\ AssetSection(url)
  /\ UNCHANGED <<pc, url, exitCode, browserOpen, awaited, toScroll, files>>
  /\ UNCHANGED bootVars

\* `await response.text()` rejects (the body is gone, the page closed):
\* the catch block of the handler prints the error.
TextRejected ==
  /\ exitCode = 0
  /\ pendingText > 0
  /\ pendingText' = pendingText - 1
  /\ lastError' = "text"
  /\ UNCHANGED <<pc, url, exitCode, browserOpen, bar, totalImages,
                 processedUrls, tasks, awaited, toScroll, files, skipped>>
  /\ UNCHANGED bootVars

(* -------------------------- downloadWithRetry ------------------------- *)
TaskIds == 1..Len(tasks)

\* `await context.request.get(imageUrl)` resolves with an ok response;
\* the task awaits response.body().
TaskGetOk(i) ==
  /\ exitCode = 0
  /\ browserOpen
  /\ i \in TaskIds
  /\ tasks[i].st = "get"
  /\ tasks' = [tasks EXCEPT ![i].st = "body"]
  /\ UNCHANGED <<pc, url, exitCode, browserOpen, bar, totalImages,
                 processedUrls, awaited, pendingText, toScroll, files,
                 lastError, skipped>>
  /\ UNCHANGED observed
  /\ UNCHANGED bootVars

\* A retry loop that gives up: the failure makes the function return.
AfterFailureGivesUp(t) == [t EXCEPT !.attempts = @ + 1, !.st = "returned"]

\* A catch block that prints the verbose diagnostic on every failure.
AfterFailureLogsAll(t) ==
  [t EXCEPT !.attempts = @ + 1, !.verbose = @ + 1, !.st = "sleep"]

\* The catch block: attempts++, the diagnostic, then the 10 s timer.
AfterFailure(t) ==
  [t EXCEPT !.attempts = @ + 1,
            !.verbose = IF t.attempts + 1 <= maxLoggedAttempts
                          THEN @ + 1 ELSE @,
            !.silent = IF t.attempts + 1 = maxLoggedAttempts + 1
                          THEN @ + 1 ELSE @,
            !.st = "sleep"]

\* The request throws, the status is not ok, or reading the body throws.
TaskFail(i) ==
  /\ exitCode = 0
  /\ i \in TaskIds
  /\ tasks[i].st \in {"get", "body"}
  /\ tasks[i].attempts < MaxFails
  /\ tasks' = [tasks EXCEPT ![i] = AfterFailure(tasks[i])]
  /\ UNCHANGED <<pc, url, exitCode, browserOpen, bar, totalImages,
                 processedUrls, awaited, pendingText, toScroll, files,
                 lastError, skipped>>
  /\ UNCHANGED observed
  /\ UNCHANGED bootVars

\* setTimeout(resolve, 10000) fires: the loop starts the next attempt.
TaskTimer(i) ==
  /\ exitCode = 0
  /\ i \in TaskIds
  /\ tasks[i].st = "sleep"
  /\ tasks' = [tasks EXCEPT ![i].st = "get"]
  /\ UNCHANGED <<pc, url, exitCode, browserOpen, bar, totalImages,
                 processedUrls, awaited, pendingText, toScroll, files,
                 lastError, skipped>>
  /\ UNCHANGED observed
  /\ UNCHANGED bootVars

\* if (attempts > 0) bar.update(1, {suffix: ... réussi après ...})
BarAfterWrite(b, t) == IF t.attempts > 0 THEN BarUpdateValue(b, 1) ELSE b

\* `await response.body()` resolves: the file is written, the bar is
\* updated after retries, and downloadWithRetry returns.
TaskBodyOk(i) ==
  /\ exitCode = 0
  /\ browserOpen
  /\ i \in TaskIds
  /\ tasks[i].st = "body"
  /\ files' = files \cup {<<tasks[i].folder, tasks[i].name>>}
  /\ bar' = BarAfterWrite(bar, tasks[i])
  /\ tasks' = [tasks EXCEPT ![i].st = "returned"]
  /\ UNCHANGED <<pc, url, exitCode, browserOpen, totalImages, processedUrls,
                 awaited, pendingText, toScroll, lastError, skipped>>
  /\ UNCHANGED observed
  /\ UNCHANGED bootVars

\* .then(() => progressBar.increment()): the promise pushed to
\* downloadQueue is fulfilled after it.
TaskThen(i) ==
  /\ exitCode = 0
  /\ i \in TaskIds
  /\ tasks[i].st = "returned"
  /\ bar' = BarIncrement(bar)
  /\ tasks' = [tasks EXCEPT ![i].st = "done"]
  /\ UNCHANGED <<pc, url, exitCode, browserOpen, totalImages, processedUrls,
                 awaited, pendingText, toScroll, files,
                 lastError, skipped>>
  /\ UNCHANGED observed
  /\ UNCHANGED bootVars

(* ------------------ downloadingSushiscanPageImages -------------------- *)
\* firefox.launch(); newContext(); addCookies(validCookies); newPage();
\* the bar is constructed, the handler registered, page.goto(url) issued.
MainLaunch ==
  /\ pc = "launch"
  /\ browserOpen' = TRUE
  /\ pc' = "goto"
  /\ UNCHANGED <<url, exitCode, awaited, toScroll>>
  /\ UNCHANGED bootVars
  /\ UNCHANGED pageVars

\* page.goto resolves (networkidle); the reader images are listed.
MainGotoOk(n) ==
  /\ pc = "goto"
  /\ exitCode = 0
  /\ toScroll' = n
  /\ pc' = "scroll"
  /\ UNCHANGED <<url, exitCode, browserOpen, awaited>>
  /\ UNCHANGED bootVars
  /\ UNCHANGED pageVars

\* One turn of the scroll loop: scrollIntoView, then networkidle.
MainScroll ==
  /\ pc = "scroll"
  /\ toScroll > 0
  /\ toScroll' = toScroll - 1
  /\ UNCHANGED <<pc, url, exitCode, browserOpen, awaited>>
  /\ UNCHANGED bootVars
  /\ UNCHANGED pageVars

\* await Promise.all(downloadQueue): the promises in the array now.
MainAwaitAll ==
  /\ pc = "scroll"
  /\ toScroll = 0
  /\ awaited' = Len(tasks)
  /\ pc' = "drain"
  /\ UNCHANGED <<url, exitCode, browserOpen, toScroll>>
  /\ UNCHANGED bootVars
  /\ UNCHANGED pageVars

\* A run in which a failed download rejects Promise.all and so reaches the
\* catch block.
MainCatchOnDownloadFailure ==
  /\ pc \in {"goto", "scroll", "drain"}
  /\ pc = "drain" => \E i \in TaskIds : tasks[i].attempts > 0
  /\ exitCode = 0
  /\ ProcessExit
  /\ UNCHANGED <<url, browserOpen, awaited, toScroll>>
  /\ UNCHANGED bootVars
  /\ UNCHANGED pageVars

\* The catch block of the main try: page.goto, the listing, the scroll or
\* the idle wait threw; 'Erreur critique' is printed, process.exit(1).
MainCatch ==
  /\ pc \in {"goto", "scroll"}
  /\ exitCode = 0
  /\ ProcessExit
  /\ UNCHANGED <<url, browserOpen, awaited, toScroll>>
  /\ UNCHANGED bootVars
  /\ UNCHANGED pageVars

\* Promise.all resolves when every promise it was given is fulfilled.
AllSettled == \A i \in 1..awaited : tasks[i].st = "done"

\* Promise.all resolves: the success message is printed; the finally
\* block stops the bar and issues browser.close().
MainDrained ==
  /\ pc = "drain"
  /\ AllSettled
  /\ bar' = BarStop(bar)
  /\ pc' = "closing"
  /\ UNCHANGED <<url, exitCode, browserOpen, totalImages, processedUrls,
                 tasks, awaited, pendingText, toScroll, files,
                 lastError, skipped>>
  /\ UNCHANGED observed
  /\ UNCHANGED bootVars

\* await browser.close() resolves; downloadingSushiscanPageImages returns.
MainClosed ==
  /\ pc = "closing"
  /\ browserOpen' = FALSE
  /\ pc' = "done"
  /\ UNCHANGED <<url, exitCode, awaited, toScroll>>
  /\ UNCHANGED bootVars
  /\ UNCHANGED pageVars

(* --------------------------- specification ---------------------------- *)
Next ==
  \/ PreloadLaunch
  \/ PreloadGotoOk
  \/ PreloadCatch
  \/ \E t \in {"challenge", "site"} : PreloadTitle(t)
  \/ PreloadWaitOk
  \/ PreloadFinally
  \/ SaveCookies
  \/ MainLaunch
  \/ \E n \in 0..MaxImages : MainGotoOk(n)
  \/ MainScroll
  \/ MainAwaitAll
  \/ MainCatch
  \/ MainDrained
  \/ MainClosed
  \/ \E u \in ResponseUrls, ok \in BOOLEAN :
       Respond(u, ok) /\ UNCHANGED observed
  \/ \E b \in Bodies : TextResolved(b) /\ UNCHANGED observed
  \/ TextRejected /\ UNCHANGED observed
  \/ \E i \in TaskIds : TaskGetOk(i)
  \/ \E i \in TaskIds : TaskFail(i)
  \/ \E i \in TaskIds : TaskTimer(i)
  \/ \E i \in TaskIds : TaskBodyOk(i)
  \/ \E i \in TaskIds : TaskThen(i)

Spec == Init /\ [][Next]_vars

(* ----------------- the same run, with the handler's input kept -------- *)
\* What the 'response' handler was handed last: the response of the event
\* (lines 153-156) or the body `await response.text()` resolved with (157).
\* `tick` alternates with every handler step, so that two equal inputs in
\* a row are two observations.
ObservedResponse(u, ok) ==
  [kind |-> "response", url |-> u, ok |-> ok, tick |-> ~observed.tick]

ObservedBody(body) == [kind |-> "body", body |-> body, tick |-> ~observed.tick]

ObservedRejection == [kind |-> "rejection", tick |-> ~observed.tick]

\* The handler starts on a response / resumes with a body in this step.
HandlesResponse == observed' # observed /\ observed'.kind = "response"

HandlesBody == observed' # observed /\ observed'.kind = "body"

\* The responses of this run: the reader page under both spellings, one
\* image, one upload URL without a (folder, name) match, and a response the
\* handler has no use for.
HandlerUrls == {PageUrl, PageUrlSlash, Asset1, AssetBad, OtherUrl}

\* The run with every download attempt succeeding; the handler's input is
\* recorded in `observed`.
NextHandler ==
  \/ PreloadLaunch
  \/ PreloadGotoOk
  \/ PreloadCatch
  \/ \E t \in {"challenge", "site"} : PreloadTitle(t)
  \/ PreloadWaitOk
  \/ PreloadFinally
  \/ SaveCookies
  \/ MainLaunch
  \/ \E n \in 0..MaxImages : MainGotoOk(n)
  \/ MainScroll
  \/ MainAwaitAll
  \/ MainCatch
  \/ MainDrained
  \/ MainClosed
  \/ \E u \in HandlerUrls, ok \in BOOLEAN :
       Respond(u, ok) /\ observed' = ObservedResponse(u, ok)
  \/ \E b \in Bodies : TextResolved(b) /\ observed' = ObservedBody(b)
  \/ TextRejected /\ observed' = ObservedRejection
  \/ \E i \in TaskIds : TaskGetOk(i)
  \/ \E i \in TaskIds : TaskBodyOk(i)
  \/ \E i \in TaskIds : TaskThen(i)

SpecHandler == Init /\ [][NextHandler]_vars

(* ------------- the same run, with a persistently failing image ------- *)
\* As TaskFail, followed past the silent-retries notice.
TaskFailDeep(i) ==
  /\ exitCode = 0
  /\ i \in TaskIds
  /\ tasks[i].st \in {"get", "body"}
  /\ tasks[i].attempts < MaxDeepFails
  /\ tasks' = [tasks EXCEPT ![i] = AfterFailure(tasks[i])]
  /\ UNCHANGED <<pc, url, exitCode, browserOpen, bar, totalImages,
                 processedUrls, awaited, pendingText, toScroll, files,
                 lastError, skipped>>
  /\ UNCHANGED observed
  /\ UNCHANGED bootVars

\* The responses of this run: the reader page and one image.
RetryUrls == {PageUrl, Asset1}

NextRetry ==
  \/ PreloadLaunch
  \/ PreloadGotoOk
  \/ PreloadCatch
  \/ \E t \in {"challenge", "site"} : PreloadTitle(t)
  \/ PreloadWaitOk
  \/ PreloadFinally
  \/ SaveCookies
  \/ MainLaunch
  \/ \E n \in 0..MaxImages : MainGotoOk(n)
  \/ MainScroll
  \/ MainAwaitAll
  \/ MainCatch
  \/ MainDrained
  \/ MainClosed
  \/ \E u \in RetryUrls, ok \in BOOLEAN :
       Respond(u, ok) /\ UNCHANGED observed
  \/ \E b \in Bodies : TextResolved(b) /\ UNCHANGED observed
  \/ TextRejected /\ UNCHANGED observed
  \/ \E i \in TaskIds : TaskGetOk(i)
  \/ \E i \in TaskIds : TaskFailDeep(i)
  \/ \E i \in TaskIds : TaskTimer(i)
  \/ \E i \in TaskIds : TaskBodyOk(i)
  \/ \E i \in TaskIds : TaskThen(i)

SpecRetry == Init /\ [][NextRetry]_vars

(* -------------- the same run, with well-formed images only ------------ *)
\* The responses of this run: the reader page and two images of the same
\* file name in different upload directories.
DownloadUrls == {PageUrl, Asset1, Asset1b}

NextDownloads ==
  \/ PreloadLaunch
  \/ PreloadGotoOk
  \/ PreloadCatch
  \/ \E t \in {"challenge", "site"} : PreloadTitle(t)
  \/ PreloadWaitOk
  \/ PreloadFinally
  \/ SaveCookies
  \/ MainLaunch
  \/ \E n \in 0..MaxImages : MainGotoOk(n)
  \/ MainScroll
  \/ MainAwaitAll
  \/ MainCatch
  \/ MainDrained
  \/ MainClosed
  \/ \E u \in DownloadUrls, ok \in BOOLEAN :
       Respond(u, ok) /\ UNCHANGED observed
  \/ \E b \in Bodies : TextResolved(b) /\ UNCHANGED observed
  \/ TextRejected /\ UNCHANGED observed
  \/ \E i \in TaskIds : TaskGetOk(i)
  \/ \E i \in TaskIds : TaskFail(i)
  \/ \E i \in TaskIds : TaskTimer(i)
  \/ \E i \in TaskIds : TaskBodyOk(i)
  \/ \E i \in TaskIds : TaskThen(i)

SpecDownloads == Init /\ [][NextDownloads]_vars

(* ------------------------------ helpers ------------------------------- *)
TasksFor(u) == {i \in TaskIds : tasks[i].url = u}

\* The file has been written and downloadWithRetry has returned.
Succeeded(i) == tasks[i].st \in {"returned", "done"}

\* The step in which the run leaves the drain wait for Done: Promise.all
\* has resolved, the success message is printed and the bar is stopped
\* (the browser is closed next, and nothing else is done by the run).
ReachesDone == pc = "drain" /\ pc' = "closing"

\* The (folder, name) pairs derivable from the URLs discovered so far.
DiscoveredPairs == {FolderName[u] : u \in {v \in processedUrls : FolderName[v] # NoMatch}}

\* The process exited inside preloadCookies: the headless browser of the
\* main phase was never launched.
FailedInPreload == pc = "failed" /\ ~browserOpen

(* ------------------------------- claims ------------------------------- *)

C2_ReturnsOnlyOnSuccess ==
  [][\A i \in TaskIds :
       /\ (tasks'[i].attempts > tasks[i].attempts) => tasks'[i].st = "sleep"
       /\ (~Succeeded(i) /\ tasks'[i].st \in {"returned", "done"}) =>
            /\ tasks[i].st = "body"
            /\ tasks'[i].attempts = tasks[i].attempts
            /\ <<tasks[i].folder, tasks[i].name>> \in files']_vars

\* A task has returned after a failed attempt, and its file is there.
C2_Witness ==
  \E i \in TaskIds :
    /\ tasks[i].attempts > 0
    /\ Succeeded(i)
    /\ <<tasks[i].folder, tasks[i].name>> \in files

\* C3: the completed count of the bar never decreases, and it changes only
\* by +1, in the step that fulfils a download promise.
C3_MonotonicByOne ==
  [][\/ bar'.value = bar.value
     \/ /\ bar'.value = bar.value + 1
        /\ \E i \in TaskIds : tasks[i].st = "returned" /\ tasks'[i].st = "done"]_vars

\* C4: once the bar has been started with the Expected Total, its value
\* never exceeds its total.
C4_ValueWithinTotal == bar.started => bar.value <= bar.total

\* C5: once the Expected Total has been set, no step changes it and no
\* step resets a positive completed count to zero.
C5_TotalSetOnce ==
  [][bar.started =>
       /\ bar'.total = bar.total
       /\ ~(bar.value > 0 /\ bar'.value = 0)]_vars

\* C6: the run goes from the drain wait to Done only when every download
\* task ever created, those created during the drain wait included, has
\* reached terminal success.
C6_DoneOnlyWhenAllSucceeded ==
  [][ReachesDone => \A i \in TaskIds : Succeeded(i)]_vars

\* C7: when the run reaches Done, the files written are exactly the
\* (folder, name) pairs of the discovered asset URLs.
C7_FilesEqualDiscoveredPairs ==
  [][ReachesDone => files = DiscoveredPairs]_vars

\* C8: once the challenge loop is exhausted with the title still the
\* challenge sentinel, preloadCookies returns no cookies and the run does
\* not go on: the next step ends the process.
C8_ExhaustedIsFatal ==
  [][(pc = "preload_finally" /\ title = "challenge") =>
       (pc' = "failed" /\ validCookies' = NoCookies)]_vars

\* C9: whenever preloadCookies is over, by return or by process exit, the
\* one browser context it opened has been closed.
C9_ContextClosedOnEveryExit ==
  pc \notin {"preload_launch", "preload_goto", "preload_title",
             "preload_wait", "preload_finally"}
    => preloadBrowser = "closed"

\* C10: when the run ends because the navigation of preloadCookies failed,
\* the harvested cookies have been returned and written to cookies.json.
C10_CookiesKeptOnFailure ==
  FailedInPreload => (validCookies # NoCookies /\ cookieFile = validCookies)

\* The step that ends the run as Failed (diagnostic printed, exit status 1).
BecomesFailed == pc # "failed" /\ pc' = "failed"

\* Task i has a failed attempt in this step.
AttemptFails(i) == tasks'[i].attempts > tasks[i].attempts

Completes(i) == tasks[i].st = "returned" /\ tasks'[i].st = "done"

\* C12: over the lifetime of a download task the progress count moves only
\* in its Completion step, by exactly one and with the file already
\* written; no other step of the task, whatever the number of failed
\* attempts before, moves the count.
C12_OneCompletionPerTask ==
  [][\A i \in TaskIds :
       tasks'[i] # tasks[i] =>
         IF Completes(i)
           THEN /\ bar'.value = bar.value + 1
                /\ <<tasks[i].folder, tasks[i].name>> \in files
           ELSE bar'.value = bar.value]_vars

\* The handler finds no "images" list in the primary body in this step.
ManifestFormatError == HandlesBody /\ observed'.body = NoImagesKey

\* C13: when the primary body has no "images" list the handler prints the
\* error and nothing else happens: the run stays where it is, the process
\* lives, the Expected Total and the bar are as before, and no task or
\* discovered URL is lost.
C13_FormatErrorIsRecovered ==
  [][ManifestFormatError =>
       /\ pc' = pc
       /\ exitCode' = 0
       /\ totalImages' = totalImages
       /\ bar' = bar
       /\ tasks' = tasks
       /\ processedUrls' = processedUrls
       /\ lastError' = "format"]_vars

\* The format error was the last one printed, the total was never set, and
\* the run reached Done with a download discovered and completed.
C13_Witness ==
  /\ lastError = "format"
  /\ ~bar.started
  /\ totalImages = 0
  /\ pc = "done"
  /\ \E i \in TaskIds : tasks[i].st = "done"

\* A URL without its trailing slash, if it has one.
StripSlash(u) ==
  IF Len(u) > 0 /\ u[Len(u)] = "/" THEN SubSeq(u, 1, Len(u) - 1) ELSE u

\* C14: a successful response whose URL is the target URL up to a trailing
\* slash starts the manifest branch: the handler goes on to read the body.
C14_TrailingSlashNormalized ==
  [][(/\ HandlesResponse
      /\ observed'.ok
      /\ StripSlash(observed'.url) = StripSlash(url))
       => pendingText' = pendingText + 1]_vars

\* The number of elements of the list between the brackets.
ElementCount(s) == IF s = <<>> THEN 0 ELSE CountCommas(s) + 1

\* C15: a primary body with an "images" list sets the Expected Total to the
\* number of elements of the list and the bar to 0 of that total.
C15_TotalIsElementCount ==
  [][(HandlesBody /\ observed'.body # NoImagesKey)
       => /\ totalImages' = ElementCount(observed'.body)
          /\ bar'.total = ElementCount(observed'.body)
          /\ bar'.value = 0
          /\ bar'.started]_vars

\* C16: a response with a non-success status adds nothing to the Discovery
\* Set and creates no task.
C16_DiscoveryOnlyOnSuccess ==
  [][(HandlesResponse /\ ~observed'.ok)
       => processedUrls' = processedUrls /\ tasks' = tasks]_vars

\* The handler meets, for the first time, a URL that passes the upload
\* filter and has no (folder, name) match.
MalformedAssetUrl(u) ==
  /\ UploadFilter[u]
  /\ FolderName[u] = NoMatch
  /\ u \notin processedUrls
  /\ u \in processedUrls'

\* C17: a URL that passes the upload filter without matching the
\* (folder, name) pattern is logged and skipped: its step creates no task,
\* prints the error and leaves the run and the process as they are; no task
\* ever carries such a URL; and a well-formed URL discovered after it still
\* gets its task.
C17_MalformedUrlSkipped ==
  [][/\ \A u \in ResponseUrls : MalformedAssetUrl(u) =>
          /\ tasks' = tasks
          /\ lastError' = "destructure"
          /\ pc' = pc
          /\ exitCode' = 0
     /\ \A i \in 1..Len(tasks') : FolderName[tasks'[i].url] # NoMatch
     /\ \A u \in ResponseUrls :
          (/\ AssetBad \in processedUrls
           /\ FolderName[u] # NoMatch
           /\ u \notin processedUrls
           /\ u \in processedUrls')
            => /\ Len(tasks') = Len(tasks) + 1
               /\ tasks'[Len(tasks')].url = u]_vars

\* The malformed URL was met and logged, and the run is Done with the
\* download of a well-formed URL completed.
C17_Witness ==
  /\ AssetBad \in processedUrls
  /\ lastError = "destructure"
  /\ TasksFor(AssetBad) = {}
  /\ pc = "done"
  /\ exitCode = 0
  /\ \E i \in TaskIds : tasks[i].st = "done"

\* The smaller of two numbers.
Min(a, b) == IF a < b THEN a ELSE b

\* C18: after k failed attempts a task has printed the verbose diagnostic
\* for each of its first three failures, the silent-retries notice once if
\* k >= 4, and nothing for any later failure: Min(k, 4) diagnostics in all.
C18_RetryDiagnostics ==
  \A i \in TaskIds :
    /\ tasks[i].verbose = Min(tasks[i].attempts, maxLoggedAttempts)
    /\ tasks[i].silent = IF tasks[i].attempts >= maxLoggedAttempts + 1
                           THEN 1 ELSE 0
    /\ tasks[i].verbose + tasks[i].silent = Min(tasks[i].attempts, 4)

\* A task has failed five times or more, has printed four diagnostics, and
\* has then succeeded.
C18_Witness ==
  \E i \in TaskIds :
    /\ tasks[i].attempts >= 5
    /\ tasks[i].verbose = 3
    /\ tasks[i].silent = 1
    /\ tasks[i].st = "done"

\* The last position of character c in u, 0 if there is none.
LastPos(u, c) ==
  CHOOSE k \in 0..Len(u) :
    /\ k = 0 \/ u[k] = c
    /\ \A j \in (k + 1)..Len(u) : u[j] # c

\* The file name of a URL without its extension: the text between the last
\* "/" and the last ".".
Stem(u) == SubSeq(u, LastPos(u, "/") + 1, LastPos(u, ".") - 1)

\* The stems of the URLs of the model, evaluated once.
StemOf == [u \in ResponseUrls |-> Stem(u)]

\* The destination of task i: {destinationFolder}/{folder}/{name}.jpg
Destination(i) == <<tasks[i].folder, tasks[i].name>>

StillFailing(i) == tasks[i].attempts > 0 /\ ~Succeeded(i)

\* C20 (converse half): as long as some task is in its retry loop without
\* a success, the run is not Done.
C20_FailingTaskKeepsFromDone ==
  \A i \in TaskIds : StillFailing(i) => pc # "done"

====
